---- MODULE Spec2Model ----
(***************************************************************************)
(* The task reconciliation engine of swipelime-client-node: the debounced  *)
(* snapshot intake (runTasksQueue), the reconciliation pass (processTasks, *)
(* processTasksFinishes) and the liveness monitor (startTaskCheckInterval) *)
(* of ServiceHandler, over the task cache and the pending-snapshot slot;  *)
(* the caller-facing operations of ServiceHandler, and the connection      *)
(* handshake and callMethod of Client. Time is in milliseconds.            *)
(***************************************************************************)
EXTENDS Integers, Sequences, FiniteSets, TLC

\* ------------------------------------------------------------------ bounds
\* Spec follows the engine over three monitor periods: the number of onChange
\* notifications of the reactive collection, and where the clock stops
MaxNotifs == 2
MaxTime == 90400
\* SpecBurst follows a longer burst of notifications over one monitor period
MaxBurst == 3
MaxBurstTime == 30400
\* SpecApp adds the application's calls of the operations and a document of
\* unknown taskType, over the first debounce windows
MaxAppNotifs == 2
MaxAppTime == 400
MaxCalls == 1
\* SpecClient follows the client over the connections of its transport
MaxConnects == 2

\* ------------------------------------------------------- program constants
DebounceWait == 200
TaskTimeout == 60000
CheckInterval == 30000
TaskTypeEvent == 1
TaskTypeCommand == 2
\* the value of a constructor argument that is not passed; arithmetic on it
\* gives NaN and every comparison with NaN is false
Undefined == -1

eventTypes ==
  { "test", "customer-joined-table", "order-items-added", "order-items-confirmed",
    "order-items-cancelled", "order-items-changed", "order-items-moved",
    "payment-requested", "payment-request-cancelled", "order-items-payment-requested",
    "order-items-payment-confirmed", "order-items-payment-cancelled",
    "universal-menu-elements-added", "universal-menu-elements-updated",
    "universal-menu-elements-removed", "tables-added", "tables-updated",
    "tables-removed" }

commandTypes == { "test", "confirm-universal-menu-elements" }

\* ------------------------------------------------------------ raw documents
\* IncomingTaskData: _id, taskType and data.eventType / data.commandType
\* (subType; the empty string is a missing sub-kind)
IncomingTaskData(id, taskType, subType) ==
  [_id |-> id, taskType |-> taskType, subType |-> subType]

\* the documents the remote queue holds, in the order the collection lists them
Docs ==
  << IncomingTaskData("a", TaskTypeCommand, "test"),
     IncomingTaskData("b", TaskTypeEvent, "unknown-topic"),
     IncomingTaskData("c", TaskTypeEvent, "test"),
     IncomingTaskData("d", TaskTypeCommand, "tables-added") >>

Ids == { Docs[i]._id : i \in 1..Len(Docs) }

\* a document whose taskType is neither TaskType.event nor TaskType.command
UnknownKindDoc == IncomingTaskData("e", 3, "test")

\* the collection after the server adds document doc (a new document goes to
\* the end) or removes it
Toggle(collection, doc) ==
  IF \E i \in 1..Len(collection) : collection[i] = doc
  THEN SelectSeq(collection, LAMBDA x : x # doc)
  ELSE Append(collection, doc)

\* ------------------------------------------------------------------- models
Task(doc, timestampReceived) ==
  [id |-> doc._id, taskType |-> doc.taskType, subType |-> doc.subType,
   timestampReceived |-> timestampReceived]

\* TaskEvent's constructor takes (doc, serviceHandler) and calls
\* super(doc, serviceHandler): the third argument of the caller is dropped
TaskEvent(doc, timestampReceived) == Task(doc, Undefined)

TaskCommand(doc, timestampReceived) == Task(doc, timestampReceived)

\* variant: every object gets the same arrival timestamp
taskMapFunction_Epoch(taskData, dateNow) ==
  IF taskData.taskType = TaskTypeEvent
  THEN TaskEvent(taskData, 0)
  ELSE TaskCommand(taskData, 0)

\* throw swipelimeError('Unknown task type'): the call returns no object
Thrown == [id |-> "", taskType |-> 0, subType |-> "Unknown task type",
           timestampReceived |-> Undefined]

taskMapFunction(taskData, dateNow) ==
  IF taskData.taskType = TaskTypeEvent THEN TaskEvent(taskData, dateNow)
  ELSE IF taskData.taskType = TaskTypeCommand THEN TaskCommand(taskData, dateNow)
  ELSE Thrown

\* reactiveTasksCollection.map(taskMapFunction)
MapTasks(collection, dateNow) ==
  [i \in 1..Len(collection) |-> taskMapFunction(collection[i], dateNow)]

\* the mapping callback throws for some document of the collection: the
\* exception leaves the map and no mapped list comes out of it
MapThrows(collection) ==
  \E i \in 1..Len(collection) : taskMapFunction(collection[i], 0) = Thrown

TaskIds(tasks) == [i \in 1..Len(tasks) |-> tasks[i].id]

IdSet(tasks) == { tasks[i].id : i \in 1..Len(tasks) }

\* a snapshot handed to runTasksQueue; n numbers the notification that built
\* it (n = 0 is null)
Null == [n |-> 0, tasks |-> << >>]

\* -------------------------------------------------------------- _taskCache
\* a Map in insertion order
CacheHas(cache, id) == \E i \in 1..Len(cache) : cache[i].id = id

CacheSet(cache, task) ==
  IF CacheHas(cache, task.id)
  THEN [i \in 1..Len(cache) |-> IF cache[i].id = task.id THEN task ELSE cache[i]]
  ELSE Append(cache, task)

\* variant: a delete that removes nothing
CacheDelete_Nothing(cache, ids) == cache

CacheDelete(cache, ids) == SelectSeq(cache, LAMBDA t : t.id \notin ids)

\* variants of the code's operators, for checking that the properties depend
\* on them
FilterRemoved_Inverted(cache, newTaskIds) ==
  SelectSeq(cache, LAMBDA t : t.id \notin newTaskIds)

FilterRemoved_KeepAll(cache, newTaskIds) == cache

IsUnknownEvent_None(task) == FALSE

ReduceTask_NoCacheCheck(acc, task) ==
  [acc EXCEPT !.tasksToEmit = Append(@, task), !.cache = CacheSet(@, task)]

AfterProcessCalls_Swapped(r, at) ==
  (IF Len(r.commandsToRefuse) > 0
   THEN { [method |-> "markTasksAsProcessed", taskIds |-> TaskIds(r.commandsToRefuse),
           by |-> "pass", at |-> at] } ELSE { })
  \cup
  (IF Len(r.eventsToConfirm) > 0
   THEN { [method |-> "refuseTasks", taskIds |-> TaskIds(r.eventsToConfirm),
           by |-> "pass", at |-> at] } ELSE { })

FilterRemoved_KeepsCommands(cache, newTaskIds) ==
  SelectSeq(cache, LAMBDA t : t.id \in newTaskIds \/ t.taskType = TaskTypeCommand)

AfterProcessCalls_Always(r, at) ==
  { [method |-> "refuseTasks", taskIds |-> TaskIds(r.commandsToRefuse),
     by |-> "pass", at |-> at],
    [method |-> "markTasksAsProcessed", taskIds |-> TaskIds(r.eventsToConfirm),
     by |-> "pass", at |-> at] }

\* ------------------------------------------------------------ processTasks
\* "Filter out tasks that have been removed"
FilterRemoved(cache, newTaskIds) == SelectSeq(cache, LAMBDA t : t.id \in newTaskIds)

IsUnknownEvent(task) ==
  task.taskType = TaskTypeEvent /\ (task.subType = "" \/ task.subType \notin eventTypes)

IsUnknownCommand(task) ==
  task.taskType = TaskTypeCommand /\ (task.subType = "" \/ task.subType \notin commandTypes)

\* variant: a cached identity gets the object of the new snapshot
ReduceTask_Refreshes(acc, task) ==
  IF ~CacheHas(acc.cache, task.id)
  THEN IF IsUnknownEvent(task)
       THEN [acc EXCEPT !.eventsToConfirm = Append(@, task)]
       ELSE IF IsUnknownCommand(task)
       THEN [acc EXCEPT !.commandsToRefuse = Append(@, task)]
       ELSE [acc EXCEPT !.tasksToEmit = Append(@, task),
                        !.cache = CacheSet(@, task)]
  ELSE [acc EXCEPT !.cache = CacheSet(@, task)]

\* variant: the delivery list grows at its head
ReduceTask_Prepends(acc, task) ==
  IF ~CacheHas(acc.cache, task.id)
  THEN IF IsUnknownEvent(task)
       THEN [acc EXCEPT !.eventsToConfirm = Append(@, task)]
       ELSE IF IsUnknownCommand(task)
       THEN [acc EXCEPT !.commandsToRefuse = Append(@, task)]
       ELSE [acc EXCEPT !.tasksToEmit = << task >> \o @,
                        !.cache = CacheSet(@, task)]
  ELSE acc

\* variant: an auto-dispositioned task is cached, so remembered
ReduceTask_Remembers(acc, task) ==
  IF ~CacheHas(acc.cache, task.id)
  THEN IF IsUnknownEvent(task)
       THEN [acc EXCEPT !.eventsToConfirm = Append(@, task),
                        !.cache = CacheSet(@, task)]
       ELSE IF IsUnknownCommand(task)
       THEN [acc EXCEPT !.commandsToRefuse = Append(@, task),
                        !.cache = CacheSet(@, task)]
       ELSE [acc EXCEPT !.tasksToEmit = Append(@, task),
                        !.cache = CacheSet(@, task)]
  ELSE acc

\* one step of the reduce over newTasks
ReduceTask(acc, task) ==
  IF ~CacheHas(acc.cache, task.id)
  THEN IF IsUnknownEvent(task)
       THEN [acc EXCEPT !.eventsToConfirm = Append(@, task)]
       ELSE IF IsUnknownCommand(task)
       THEN [acc EXCEPT !.commandsToRefuse = Append(@, task)]
       ELSE [acc EXCEPT !.tasksToEmit = Append(@, task),
                        !.cache = CacheSet(@, task)]
  ELSE acc

RECURSIVE ReduceTasks(_, _, _)
ReduceTasks(newTasks, i, acc) ==
  IF i > Len(newTasks) THEN acc
  ELSE ReduceTasks(newTasks, i + 1, ReduceTask(acc, newTasks[i]))

\* the synchronous part of a pass over a non-empty snapshot
Reconcile(cache, newTasks) ==
  ReduceTasks(newTasks, 1,
    [cache |-> FilterRemoved(cache, IdSet(newTasks)),
     tasksToEmit |-> << >>, commandsToRefuse |-> << >>, eventsToConfirm |-> << >>])

\* a remote method call issued through Client.callMethod
Call(method, tasks, by, at) ==
  [method |-> method, taskIds |-> TaskIds(tasks), by |-> by, at |-> at]

\* afterProcessPromises
AfterProcessCalls(r, at) ==
  (IF Len(r.commandsToRefuse) > 0
   THEN { Call("refuseTasks", r.commandsToRefuse, "pass", at) } ELSE { })
  \cup
  (IF Len(r.eventsToConfirm) > 0
   THEN { Call("markTasksAsProcessed", r.eventsToConfirm, "pass", at) } ELSE { })

\* ------------------------------------------------- startTaskCheckInterval
IsLongRunning(dateNow, task) ==
  /\ task.timestampReceived # Undefined
  /\ dateNow - task.timestampReceived > TaskTimeout

TasksToDefer(cache, dateNow) == SelectSeq(cache, LAMBDA t : IsLongRunning(dateNow, t))

\* ------------------------------------------------ caller-facing operations
\* an IdOption argument: which of its two fields are given
IdOptions == [id : BOOLEAN, externalId : BOOLEAN]

\* TRUE when checkOptionalIdValidity throws
checkOptionalIdValidity(idData) == ~idData.id /\ ~idData.externalId

\* an operation of ServiceHandler: whether it is declared async, whether it
\* calls checkOptionalIdValidity on its first argument, whether it throws when
\* its list, record or payment id argument is empty, whether it takes tasks,
\* and the remote method it calls through Client.callMethod
Operation(name, async, checksId, checksEmpty, takesTasks, method) ==
  [name |-> name, async |-> async, checksId |-> checksId,
   checksEmpty |-> checksEmpty, takesTasks |-> takesTasks, method |-> method]

Operations ==
  << Operation("confirmTaskEvents", FALSE, FALSE, FALSE, TRUE, "markTasksAsProcessed"),
     Operation("confirmTaskEvent", FALSE, FALSE, FALSE, TRUE, "markTasksAsProcessed"),
     Operation("confirmTestCommand", FALSE, FALSE, FALSE, TRUE, "confirmTestCommand"),
     Operation("refuseTasks", FALSE, FALSE, FALSE, TRUE, "refuseTasks"),
     Operation("deferTasks", FALSE, FALSE, FALSE, TRUE, "deferTasks"),
     Operation("markPaymentDone", FALSE, TRUE, FALSE, FALSE, "markPaymentChanged"),
     Operation("markPaymentCancelled", FALSE, TRUE, FALSE, FALSE, "markPaymentChanged"),
     Operation("finishTable", FALSE, TRUE, FALSE, FALSE, "finishTable"),
     Operation("getOrderItems", FALSE, TRUE, FALSE, FALSE, "getOrderItems"),
     Operation("cancelOrderItems", FALSE, TRUE, TRUE, FALSE, "cancelOrderItems"),
     Operation("getTable", TRUE, TRUE, FALSE, FALSE, "getTables"),
     Operation("upsertUniversalMenuItems", FALSE, FALSE, TRUE, FALSE, "upsertUniversalMenuItems"),
     Operation("upsertTables", FALSE, FALSE, TRUE, FALSE, "upsertTables"),
     Operation("deleteMenuElements", FALSE, FALSE, TRUE, FALSE, "deleteMenuElementsByIds"),
     Operation("deleteTables", FALSE, FALSE, TRUE, FALSE, "deleteTables"),
     Operation("addCustomOrderItems", FALSE, TRUE, TRUE, FALSE, "addCustomOrderItems"),
     Operation("changeOrderItemsStatus", FALSE, TRUE, TRUE, FALSE, "changeOrderItemsStatus"),
     Operation("confirmUniversalMenuElementsCommand", FALSE, FALSE, TRUE, TRUE,
               "confirmUniversalMenuElements"),
     Operation("markOrderItemsPaymentStatus", FALSE, TRUE, TRUE, FALSE,
               "markOrderItemsPaymentStatus"),
     Operation("cancelPayment", FALSE, TRUE, TRUE, FALSE, "cancelPayment") >>

\* the statements of an operation before its callMethod: TRUE when one throws
PreconditionFails(op, idData, size) ==
  \/ op.checksId /\ checkOptionalIdValidity(idData)
  \/ op.checksEmpty /\ size = 0

\* what the caller gets from the call of an operation: an exception, or the
\* promise of an async function, rejected, or the promise of callMethod
Outcome(op, idData, size) ==
  IF PreconditionFails(op, idData, size)
  THEN IF op.async THEN "rejected" ELSE "threw"
  ELSE "pending"

\* ---------------------------------------------------------------- the state
VARIABLES
  now,                \* Date.now()
  collection,         \* the documents of the reactive tasks collection
  nextCheck,          \* when the setInterval timer fires next
  isConnected,        \* Client._isConnected
  taskCache,          \* _taskCache
  latestTasks,        \* _latestTasks
  isProcessingTasks,  \* _isProcessingTasks
  debounced,          \* lodash debounce of runTasksQueue: lastArgs and the timer
  pass,               \* the processTasks invocation suspended at its await
  inflight,           \* remote calls that have not returned
  \* history, read by the properties only
  notified,           \* number of changes of the collection so far
  lastPass,           \* number and identities of the snapshot of the most recent pass
  burst,              \* notifications that arrived during a running pass
  delivered,          \* per identity, the newTasks notifications that carried it
  inserted,           \* per identity, the times it entered the cache
  omitted,            \* identities some processed snapshot did not contain
  evicted,            \* identities the monitor has evicted
  evictedStamp,       \* per identity, the timestampReceived of the object last evicted
  cachedSince,        \* per identity, when it entered the cache (-1: not cached)
  emitted,            \* what the last step emitted: newTasks and systemAlert lists
  client,             \* Client: _isLoggedIn and the 'connected' handler's position and effects
  caller              \* the application's last call of an operation and what it got

engine == <<taskCache, latestTasks, isProcessingTasks, debounced, pass, inflight>>
history == <<notified, lastPass, burst, delivered, inserted, omitted, evicted,
             evictedStamp, cachedSince>>
application == <<client, caller>>
vars == <<now, collection, nextCheck, isConnected, engine, history, emitted, application>>

\* each field lists the payloads of the emissions: none or one
Silent == [newTasks |-> << >>, systemAlert |-> << >>]

Idle == [state |-> "idle", tasksToEmit |-> << >>]

\* the client's 'connected' handler: pc is its position ("version" and
\* "login" are its two awaits), version and login what the two calls gave it,
\* log what the client did since the transport connected, in order;
\* serviceHandlers is _serviceHandlers, by tenant, and waiting the calls of
\* addServiceHandler suspended at their await of 'login'. At the start the
\* handshake of the first connection is over and succeeded, and the service
\* handler whose engine this module follows has been added
LoggedIn ==
  [pc |-> "done", isLoggedIn |-> TRUE, connects |-> 0,
   version |-> "valid", login |-> "user",
   log |-> << "call isVersionValid", "emit connected", "call login", "emit login" >>,
   serviceHandlers |-> << "tenant" >>, waiting |-> << >>]

\* the application has called no operation yet
NoCall == [n |-> 0, op |-> "", idData |-> [id |-> TRUE, externalId |-> TRUE], size |-> 0,
           tasks |-> << >>, outcome |-> "", errors |-> 0]

NoTimer == [lastArgs |-> Null, deadline |-> 0]

TimerPending == debounced.lastArgs.n # 0

Bump(f, ids) == [x \in DOMAIN f |-> IF x \in ids THEN f[x] + 1 ELSE f[x]]

Init ==
  /\ now = 0
  /\ collection = << >>
  /\ nextCheck = CheckInterval
  /\ isConnected = TRUE
  /\ taskCache = << >>
  /\ latestTasks = Null
  /\ isProcessingTasks = FALSE
  /\ debounced = NoTimer
  /\ pass = Idle
  /\ inflight = { }
  /\ notified = 0
  /\ lastPass = [n |-> 0, ids |-> << >>]
  /\ burst = "none"
  /\ delivered = [x \in Ids |-> 0]
  /\ inserted = [x \in Ids |-> 0]
  /\ omitted = { }
  /\ evicted = { }
  /\ evictedStamp = [x \in Ids |-> -1]
  /\ cachedSince = [x \in Ids |-> -1]
  /\ emitted = Silent
  /\ client = LoggedIn
  /\ caller = NoCall


\* ------------------------------------------------------------- the actions
\* lodash debounce(func, 200): a call records its arguments and restarts the
\* timer; the timer invokes func once with the arguments of the last call
Debounce(newTasks, dateNow) ==
  [lastArgs |-> newTasks, deadline |-> dateNow + DebounceWait]

\* variant: hands the Pending snapshot over without clearing the slot
processTasksFinishes_KeepPending(timer) ==
  /\ latestTasks' = latestTasks
  /\ debounced' = IF latestTasks # Null
                  THEN [lastArgs |-> latestTasks, deadline |-> now + DebounceWait]
                  ELSE timer

\* processTasksFinishes; timer is the state of the debounce when it is called
processTasksFinishes(timer) ==
  IF latestTasks # Null
  THEN /\ latestTasks' = Null
       /\ debounced' = Debounce(latestTasks, now)
  ELSE /\ latestTasks' = latestTasks
       /\ debounced' = timer

\* variant: emits newTasks whatever the length of the list
EmitNewTasks_Always(tasksToEmit) ==
  /\ emitted' = [Silent EXCEPT !.newTasks = << TaskIds(tasksToEmit) >>]
  /\ delivered' = Bump(delivered, IdSet(tasksToEmit))

\* this._eventEmitter.emit('newTasks', tasksToEmit), guarded by its length
EmitNewTasks(tasksToEmit) ==
  IF Len(tasksToEmit) > 0
  THEN /\ emitted' = [Silent EXCEPT !.newTasks = << TaskIds(tasksToEmit) >>]
       /\ delivered' = Bump(delivered, IdSet(tasksToEmit))
  ELSE /\ emitted' = Silent
       /\ delivered' = delivered

\* variant: a pass over an empty snapshot that leaves the cache as it is
processTasks_EmptyKeepsCache(newTasks, timer) ==
  /\ lastPass' = [n |-> newTasks.n, ids |-> TaskIds(newTasks.tasks)]
  /\ omitted' = omitted \cup (Ids \ IdSet(newTasks.tasks))
  /\ burst' = IF burst = "owed" THEN "served" ELSE burst
  /\ IF Len(newTasks.tasks) = 0
     THEN /\ isProcessingTasks' = FALSE
          /\ taskCache' = taskCache
          /\ processTasksFinishes(timer)
          /\ cachedSince' = cachedSince
          /\ emitted' = Silent
          /\ UNCHANGED <<pass, inflight, delivered, inserted>>
     ELSE LET r == Reconcile(taskCache, newTasks.tasks)
              calls == AfterProcessCalls(r, now)
          IN  /\ taskCache' = r.cache
              /\ inflight' = inflight \cup calls
              /\ inserted' = Bump(inserted, IdSet(r.cache) \ IdSet(taskCache))
              /\ cachedSince' =
                   [x \in Ids |-> IF x \notin IdSet(r.cache) THEN -1
                                  ELSE IF x \in IdSet(taskCache) THEN cachedSince[x]
                                  ELSE now]
              /\ IF calls # { }
                 THEN /\ isProcessingTasks' = TRUE
                      /\ pass' = [state |-> "awaiting", tasksToEmit |-> r.tasksToEmit]
                      /\ latestTasks' = latestTasks
                      /\ debounced' = timer
                      /\ emitted' = Silent
                      /\ delivered' = delivered
                 ELSE /\ EmitNewTasks(r.tasksToEmit)
                      /\ isProcessingTasks' = FALSE
                      /\ processTasksFinishes(timer)
                      /\ pass' = Idle

\* processTasks(newTasks), up to its await or, with nothing to await, to its end
processTasks(newTasks, timer) ==
  /\ lastPass' = [n |-> newTasks.n, ids |-> TaskIds(newTasks.tasks)]
  /\ omitted' = omitted \cup (Ids \ IdSet(newTasks.tasks))
  /\ burst' = IF burst = "owed" THEN "served" ELSE burst
  /\ IF Len(newTasks.tasks) = 0
     THEN /\ isProcessingTasks' = FALSE
          /\ taskCache' = << >>
          /\ processTasksFinishes(timer)
          /\ cachedSince' = [x \in Ids |-> -1]
          /\ emitted' = Silent
          /\ UNCHANGED <<pass, inflight, delivered, inserted>>
     ELSE LET r == Reconcile(taskCache, newTasks.tasks)
              calls == AfterProcessCalls(r, now)
          IN  /\ taskCache' = r.cache
              /\ inflight' = inflight \cup calls
              /\ inserted' = Bump(inserted, IdSet(r.cache) \ IdSet(taskCache))
              /\ cachedSince' =
                   [x \in Ids |-> IF x \notin IdSet(r.cache) THEN -1
                                  ELSE IF x \in IdSet(taskCache) THEN cachedSince[x]
                                  ELSE now]
              /\ IF calls # { }
                 THEN /\ isProcessingTasks' = TRUE
                      /\ pass' = [state |-> "awaiting", tasksToEmit |-> r.tasksToEmit]
                      /\ latestTasks' = latestTasks
                      /\ debounced' = timer
                      /\ emitted' = Silent
                      /\ delivered' = delivered
                 ELSE /\ EmitNewTasks(r.tasksToEmit)
                      /\ isProcessingTasks' = FALSE
                      /\ processTasksFinishes(timer)
                      /\ pass' = Idle

\* variant: starts a pass whatever the flag says
runTasksQueue_NoGuard(newTasks, timer) == processTasks(newTasks, timer)

\* the function runTasksQueue debounces
runTasksQueue(newTasks, timer) ==
  IF isProcessingTasks
  THEN /\ latestTasks' = newTasks
       /\ debounced' = timer
       /\ emitted' = Silent
       /\ UNCHANGED <<taskCache, isProcessingTasks, pass, inflight, lastPass, burst,
                      delivered, inserted, omitted, cachedSince>>
  ELSE processTasks(newTasks, timer)

\* the server added or removed a document: the collection is mapped anew
\* and the onChange listener gets the mapped list, unless the mapping threw
OnChange(doc, max) ==
  /\ notified < max
  /\ notified' = notified + 1
  /\ collection' = Toggle(collection, doc)
  /\ IF MapThrows(collection')
     THEN UNCHANGED <<debounced, burst>>
     ELSE /\ debounced' = Debounce([n |-> notified + 1,
                                    tasks |-> MapTasks(collection', now)], now)
          /\ burst' = IF isProcessingTasks THEN "open" ELSE "none"
  /\ emitted' = Silent
  /\ UNCHANGED <<now, nextCheck, isConnected, taskCache, latestTasks,
                 isProcessingTasks, pass, inflight, lastPass, delivered, inserted,
                 omitted, evicted, evictedStamp, cachedSince, application>>

\* the debounce timer expires and invokes runTasksQueue's function
DebounceFires ==
  /\ TimerPending
  /\ now = debounced.deadline
  /\ runTasksQueue(debounced.lastArgs, NoTimer)
  /\ UNCHANGED <<now, collection, nextCheck, isConnected, notified, evicted,
                 evictedStamp, application>>

\* events.once(emitter, 'login') listens for 'error' too while it waits: an
\* 'error' event rejects the suspended calls of addServiceHandler
OnceRejects(c) == [c EXCEPT !.waiting = << >>]

\* a remote call returns: "ok", or "failed" (Client.callMethod emits 'error'
\* and resolves to undefined), or "threw" (the emit of 'error' finds no listener
\* and throws out of callMethod, which rejects; a suspended addServiceHandler
\* is a listener)
CallMethodResult(outcome) ==
  IF outcome = "ok" THEN "resolved"
  ELSE IF outcome = "failed" THEN "resolved undefined"
  ELSE "call rejected"

CallReturns(call, outcome) ==
  /\ call \in inflight
  /\ outcome = "threw" => client.waiting = << >>
  /\ inflight' = inflight \ {call}
  /\ LET waiting == { c \in inflight \ {call} : c.by = "pass" }
     IN  IF call.by = "pass" /\ pass.state = "awaiting"
         THEN IF outcome = "threw"
              THEN /\ pass' = [pass EXCEPT !.state = "aborted"]
                   /\ emitted' = Silent
                   /\ UNCHANGED <<latestTasks, isProcessingTasks, debounced, burst,
                                  delivered>>
              ELSE IF waiting = { }
              THEN /\ EmitNewTasks(pass.tasksToEmit)
                   /\ isProcessingTasks' = FALSE
                   /\ processTasksFinishes(debounced)
                   /\ pass' = Idle
                   /\ burst' = IF burst = "open" THEN "owed" ELSE burst
              ELSE /\ emitted' = Silent
                   /\ UNCHANGED <<latestTasks, isProcessingTasks, debounced, pass,
                                  burst, delivered>>
         ELSE /\ emitted' = Silent
              /\ UNCHANGED <<latestTasks, isProcessingTasks, debounced, pass, burst,
                             delivered>>
  /\ caller' = IF call.by = "app"
               THEN [caller EXCEPT !.outcome = CallMethodResult(outcome),
                                   !.errors = IF outcome = "ok" THEN 0 ELSE 1]
               ELSE caller
  /\ client' = IF outcome = "ok" THEN client ELSE OnceRejects(client)
  /\ UNCHANGED <<now, collection, nextCheck, isConnected, taskCache, notified,
                 lastPass, inserted, omitted, evicted, evictedStamp, cachedSince>>

\* one tick of the setInterval of startTaskCheckInterval
MonitorTick ==
  /\ now = nextCheck
  /\ nextCheck' = nextCheck + CheckInterval
  /\ LET tasksToDefer == TasksToDefer(taskCache, now)
     IN  IF isConnected /\ Len(tasksToDefer) > 0
         THEN /\ taskCache' = CacheDelete(taskCache, IdSet(tasksToDefer))
              /\ inflight' = inflight \cup { Call("deferTasks", tasksToDefer, "monitor", now) }
              /\ emitted' = [Silent EXCEPT !.systemAlert = << TaskIds(tasksToDefer) >>]
              /\ evicted' = evicted \cup IdSet(tasksToDefer)
              /\ evictedStamp' =
                   [x \in Ids |->
                      IF \E i \in 1..Len(tasksToDefer) : tasksToDefer[i].id = x
                      THEN (CHOOSE t \in { tasksToDefer[i] : i \in 1..Len(tasksToDefer) } :
                              t.id = x).timestampReceived
                      ELSE evictedStamp[x]]
              /\ cachedSince' = [x \in Ids |-> IF x \in IdSet(tasksToDefer) THEN -1
                                               ELSE cachedSince[x]]
         ELSE /\ emitted' = Silent
              /\ UNCHANGED <<taskCache, inflight, evicted, evictedStamp, cachedSince>>
  /\ UNCHANGED <<now, collection, isConnected, latestTasks, isProcessingTasks,
                 debounced, pass, notified, lastPass, burst, delivered, inserted,
                 omitted, application>>

\* the transport's 'connected' and 'disconnected' events; only the monitor
\* reads isConnected, so the events are taken at the instants it runs
Connected ==
  /\ now = nextCheck
  /\ ~isConnected
  /\ isConnected' = TRUE
  /\ emitted' = Silent
  /\ UNCHANGED <<now, collection, nextCheck, engine, history, application>>

Disconnected ==
  /\ now = nextCheck
  /\ isConnected
  /\ isConnected' = FALSE
  /\ emitted' = Silent
  /\ UNCHANGED <<now, collection, nextCheck, engine, history, application>>

\* variant: addServiceHandler without the wait for 'login'
addServiceHandler_NoGate(tenantId) ==
  /\ caller.n < MaxCalls
  /\ caller' = [NoCall EXCEPT !.n = caller.n + 1, !.op = "addServiceHandler",
                              !.size = Len(tenantId),
                              !.outcome = IF tenantId = << >> THEN "rejected"
                                          ELSE "resolved"]
  /\ client' = IF tenantId = << >> THEN client
               ELSE [client EXCEPT !.serviceHandlers = @ \o tenantId]
  /\ emitted' = Silent
  /\ UNCHANGED <<now, collection, nextCheck, isConnected, engine, history>>

\* Client.addServiceHandler({ tenantId }); tenantId is << >> when missing and
\* a one-element list otherwise. The function is async: its throw rejects
\* the promise it returns
addServiceHandler(tenantId) ==
  /\ caller.n < MaxCalls
  /\ caller' = [NoCall EXCEPT !.n = caller.n + 1, !.op = "addServiceHandler",
                              !.size = Len(tenantId),
                              !.outcome = IF tenantId = << >> THEN "rejected"
                                          ELSE IF client.isLoggedIn THEN "resolved"
                                          ELSE "pending"]
  /\ client' = IF tenantId = << >> THEN client
               ELSE IF client.isLoggedIn
               THEN [client EXCEPT !.serviceHandlers = @ \o tenantId]
               ELSE [client EXCEPT !.waiting = @ \o tenantId]
  /\ emitted' = Silent
  /\ UNCHANGED <<now, collection, nextCheck, isConnected, engine, history>>

\* variant: an operation that takes its tasks out of the cache
Invoke_Uncaches(op, idData, size, tasks) ==
  /\ caller.n < MaxCalls
  /\ \A c \in inflight : c.by # "app"
  /\ LET outcome == Outcome(op, idData, size)
     IN  /\ caller' = [n |-> caller.n + 1, op |-> op.name, idData |-> idData,
                       size |-> size, tasks |-> TaskIds(tasks), outcome |-> outcome,
                       errors |-> 0]
         /\ inflight' = IF outcome = "pending"
                        THEN inflight \cup { Call(op.method, tasks, "app", now) }
                        ELSE inflight
  /\ taskCache' = CacheDelete(taskCache, IdSet(tasks))
  /\ emitted' = Silent
  /\ UNCHANGED <<now, collection, nextCheck, isConnected, latestTasks,
                 isProcessingTasks, debounced, pass, history, client>>

\* this._eventEmitter.emit('error', ...) followed by what: with a listener
\* for 'error' the statements after the emit run; without one the emit throws
EmitError(listening, what) ==
  IF listening THEN << "emit error" >> \o what ELSE << "emit error" >>

\* the transport's 'connected' event: the handler runs to its first await
TransportConnected ==
  /\ ~isConnected
  /\ client.pc = "done"
  /\ client.connects < MaxConnects
  /\ isConnected' = TRUE
  /\ client' = [client EXCEPT !.pc = "version", !.connects = @ + 1,
                              !.version = "", !.login = "",
                              !.log = << "call isVersionValid" >>]
  /\ emitted' = Silent
  /\ UNCHANGED <<now, collection, nextCheck, engine, history, caller>>

\* the isVersionValid call settles: with true ("valid"), with a falsy value
\* ("invalid"), or by rejecting ("rejects": the exception leaves the handler);
\* a call gives a value only while the transport is connected
VersionResult(result, listening) ==
  /\ client.pc = "version"
  /\ result # "rejects" => isConnected
  /\ client' =
       IF result = "invalid"
       THEN [client EXCEPT !.pc = "done", !.version = result,
                           !.log = @ \o EmitError(listening \/ client.waiting # << >>,
                                                  << "disconnect" >>),
                           !.waiting = << >>]
       ELSE IF result = "valid"
       THEN [client EXCEPT !.pc = "login", !.version = result,
                           !.log = @ \o << "emit connected", "call login" >>]
       ELSE [client EXCEPT !.pc = "done", !.version = result]
  /\ emitted' = Silent
  /\ UNCHANGED <<now, collection, nextCheck, isConnected, engine, history, caller>>

\* the login call settles: with a user (the transport's 'login' event sets
\* _isLoggedIn and the client emits 'login', on which the suspended calls of
\* addServiceHandler construct their handlers), with a falsy value, or by
\* rejecting; an exception thrown in the try block is caught by the catch
\* block, which emits 'error' itself
LoginResult(result, listening) ==
  /\ client.pc = "login"
  /\ result # "rejects" => isConnected
  /\ client' =
       IF result = "user"
       THEN [client EXCEPT !.pc = "done", !.login = result, !.isLoggedIn = TRUE,
                           !.log = @ \o << "emit login" >>,
                           !.serviceHandlers = @ \o client.waiting,
                           !.waiting = << >>]
       ELSE IF result = "falsy"
       THEN LET heard == listening \/ client.waiting # << >>
            IN  [client EXCEPT !.pc = "done", !.login = result,
                               !.log = @ \o EmitError(heard, << "disconnect" >>)
                                         \o (IF heard THEN << >> ELSE << "emit error" >>),
                               !.waiting = << >>]
       ELSE [client EXCEPT !.pc = "done", !.login = result,
                           !.log = @ \o << "emit error" >>,
                           !.waiting = << >>]
  /\ emitted' = Silent
  /\ UNCHANGED <<now, collection, nextCheck, isConnected, engine, history, caller>>

\* the transport's 'logout' event
TransportLogout ==
  /\ client.isLoggedIn
  /\ client' = [client EXCEPT !.isLoggedIn = FALSE, !.log = @ \o << "emit logout" >>]
  /\ emitted' = Silent
  /\ UNCHANGED <<now, collection, nextCheck, isConnected, engine, history, caller>>

\* the transport's 'disconnected' event
TransportDisconnected ==
  /\ isConnected
  /\ isConnected' = FALSE
  /\ client' = [client EXCEPT !.isLoggedIn = FALSE, !.log = @ \o << "emit disconnected" >>]
  /\ emitted' = Silent
  /\ UNCHANGED <<now, collection, nextCheck, engine, history, caller>>

\* the application calls an operation: idData is its IdOption argument, size
\* the length of its list or record argument, tasks its tasks
Invoke(op, idData, size, tasks) ==
  /\ caller.n < MaxCalls
  /\ \A c \in inflight : c.by # "app"
  /\ LET outcome == Outcome(op, idData, size)
     IN  /\ caller' = [n |-> caller.n + 1, op |-> op.name, idData |-> idData,
                       size |-> size, tasks |-> TaskIds(tasks), outcome |-> outcome,
                       errors |-> 0]
         /\ inflight' = IF outcome = "pending"
                        THEN inflight \cup { Call(op.method, tasks, "app", now) }
                        ELSE inflight
  /\ emitted' = Silent
  /\ UNCHANGED <<now, collection, nextCheck, isConnected, taskCache, latestTasks,
                 isProcessingTasks, debounced, pass, history, client>>

\* time passes, never beyond the next timer: to the next timer, or half a
\* debounce window while the debounce timer runs
NextTimer ==
  IF TimerPending /\ debounced.deadline < nextCheck THEN debounced.deadline ELSE nextCheck

Advance(d, maxTime) ==
  /\ d > 0
  /\ now + d <= NextTimer
  /\ now + d <= maxTime
  /\ now' = now + d
  /\ emitted' = Silent
  /\ UNCHANGED <<collection, nextCheck, isConnected, engine, history, application>>

Step(maxNotifs, maxTime) ==
  \/ \E i \in 1..Len(Docs) : OnChange(Docs[i], maxNotifs)
  \/ DebounceFires
  \/ \E call \in inflight : \E outcome \in {"ok", "failed", "threw"} :
       CallReturns(call, outcome)
  \/ MonitorTick
  \/ Connected
  \/ Disconnected
  \/ \E d \in {NextTimer - now} \cup (IF TimerPending THEN {DebounceWait \div 2} ELSE { }) :
       Advance(d, maxTime)

Next == Step(MaxNotifs, MaxTime)

Spec == Init /\ [][Next]_vars

\* the same program under a longer burst of notifications
NextBurst == Step(MaxBurst, MaxBurstTime)

SpecBurst == Init /\ [][NextBurst]_vars

\* the engine with an application that calls the operations, and a server
\* that also adds a document of unknown taskType; the known documents are a
\* and b
AppDocs == << Docs[1], Docs[2] >>

NextApp ==
  \/ \E i \in 1..Len(AppDocs) : OnChange(AppDocs[i], MaxAppNotifs)
  \/ OnChange(UnknownKindDoc, MaxAppNotifs)
  \/ DebounceFires
  \/ \E call \in inflight : \E outcome \in {"ok", "failed", "threw"} :
       CallReturns(call, outcome)
  \/ \E d \in {NextTimer - now} \cup (IF TimerPending THEN {DebounceWait \div 2} ELSE { }) :
       Advance(d, MaxAppTime)
  \/ \E i \in 1..Len(Operations) : \E idData \in IdOptions : \E size \in {0, 1} :
       \E tasks \in (IF Operations[i].takesTasks
                     THEN { << [id |-> AppDocs[j]._id] >> : j \in 1..Len(AppDocs) }
                     ELSE { << >> }) :
         Invoke(Operations[i], idData, size, tasks)

SpecApp == Init /\ [][NextApp]_vars

\* the client, its transport and the remote calls made through callMethod
NextClient ==
  \/ TransportConnected
  \/ \E result \in {"valid", "invalid", "rejects"} : \E listening \in BOOLEAN :
       VersionResult(result, listening)
  \/ \E result \in {"user", "falsy", "rejects"} : \E listening \in BOOLEAN :
       LoginResult(result, listening)
  \/ TransportLogout
  \/ TransportDisconnected
  \/ \E i \in 1..Len(Operations) : \E idData \in IdOptions : \E size \in {0, 1} :
       \E tasks \in (IF Operations[i].takesTasks THEN { << [id |-> "a"] >> } ELSE { << >> }) :
         Invoke(Operations[i], idData, size, tasks)
  \/ \E call \in inflight : \E outcome \in {"ok", "failed", "threw"} :
       CallReturns(call, outcome)
  \/ \E tenantId \in { << >>, << "other" >> } : addServiceHandler(tenantId)

SpecClient == Init /\ [][NextClient]_vars


\* ------------------------------------------------------------ the properties
InSeq(x, seq) == \E i \in 1..Len(seq) : seq[i] = x

\* a task whose sub-kind is on the allow-list of its kind
Recognized(task) ==
  \/ task.taskType = TaskTypeEvent /\ task.subType \in eventTypes
  \/ task.taskType = TaskTypeCommand /\ task.subType \in commandTypes

DeliverableIds == { Docs[i]._id : i \in { j \in 1..Len(Docs) : Recognized(Task(Docs[j], 0)) } }

\* this step enters processTasks
PassStarts == lastPass'.n # lastPass.n

\* this step resumes the suspended pass and runs it to its end
PassCompletes == pass.state = "awaiting" /\ pass'.state = "idle"

\* this step is the expiry of the debounce timer
TimerExpires == TimerPending /\ debounced' = NoTimer

\* the remote calls this step issues
Issued == inflight' \ inflight

\* nothing is left to happen in the engine
Quiescent ==
  /\ notified > 0
  /\ ~TimerPending
  /\ ~isProcessingTasks
  /\ latestTasks = Null
  /\ pass.state = "idle"

\* C1: after notifications arrived during a running pass and that pass has
\* completed, the one pass that follows reconciles against the last notified
\* snapshot, and no second pass follows without a new notification
C1_SingleFlightBurst == burst = "served" => lastPass.n = notified

\* C2: processTasks is never entered while _isProcessingTasks is true, a
\* suspended invocation always has the flag set, and a snapshot that settles
\* during a running pass only overwrites _latestTasks
C2_SinglePassInFlight ==
  [][ /\ pass'.state # "idle" => isProcessingTasks'
      /\ isProcessingTasks => ~PassStarts
      /\ (isProcessingTasks /\ TimerExpires) =>
           /\ latestTasks' = debounced.lastArgs
           /\ UNCHANGED <<taskCache, isProcessingTasks, pass, inflight>> ]_vars

\* a snapshot has settled into the Pending slot while a pass is suspended
C2_Witness ==
  isProcessingTasks /\ pass.state = "awaiting" /\ latestTasks # Null

\* C3 as stated: an identity is carried by at most one newTasks notification
\* in the whole lifetime
C3_AtMostOncePerLifetime == \A x \in Ids : delivered[x] <= 1

\* C3 amended: an identity is carried by at most one newTasks notification
\* for each time it enters the cache
C3_AtMostOncePerResidency == \A x \in Ids : delivered[x] <= inserted[x]

\* an identity has left the cache, entered it again and been delivered again
C3_Witness == \E x \in Ids : delivered[x] = 2 /\ inserted[x] = 2

\* a deliverable identity that every processed snapshot contained, once the
\* passes so far have completed
SeenByEveryPass(x) ==
  /\ x \in DeliverableIds
  /\ lastPass.n > 0
  /\ x \notin omitted
  /\ pass.state = "idle"
  /\ ~isProcessingTasks

\* C4 as stated: an identity that every processed snapshot contains is
\* carried by exactly one newTasks notification, whatever the monitor does
C4_ExactlyOnce == \A x \in Ids : SeenByEveryPass(x) => delivered[x] = 1

\* C4 amended: the same, for an identity the monitor has not evicted; it
\* entered the cache once, in the pass that delivered it
C4_ExactlyOnceWhileResident ==
  \A x \in Ids :
    (SeenByEveryPass(x) /\ x \notin evicted) => (delivered[x] = 1 /\ inserted[x] = 1)

\* a later pass, which cached y, has seen x again without delivering it again
C4_Witness ==
  \E x \in Ids : \E y \in Ids :
    /\ SeenByEveryPass(x) /\ x \notin evicted
    /\ delivered[x] = 1 /\ CacheHas(taskCache, x) /\ CacheHas(taskCache, y)
    /\ cachedSince[x] >= 0 /\ cachedSince[y] > cachedSince[x]

\* C5: a monitor tick with the client connected removes every cached item
\* resident for more than the timeout, defers it and carries it in the
\* systemAlert
C5_LivenessEviction ==
  [][ (nextCheck' # nextCheck /\ isConnected) =>
        \A x \in Ids :
          (cachedSince[x] >= 0 /\ now - cachedSince[x] > TaskTimeout) =>
            /\ ~CacheHas(taskCache', x)
            /\ \E c \in Issued : c.method = "deferTasks" /\ InSeq(x, c.taskIds)
            /\ \E i \in 1..Len(emitted'.systemAlert) : InSeq(x, emitted'.systemAlert[i]) ]_vars

\* C6: once a pass has run, the cached identities are among those of the
\* snapshot the most recent pass was given
C6_CacheSubset ==
  /\ lastPass.n = 0 => taskCache = << >>
  /\ lastPass.n > 0 => IdSet(taskCache) \subseteq { lastPass.ids[i] : i \in 1..Len(lastPass.ids) }

\* a pass over a non-empty snapshot has removed an identity an earlier pass
\* had cached: y was in every processed snapshot, x has gone
C6_Witness ==
  \E x \in Ids : \E y \in Ids :
    /\ y \notin omitted /\ CacheHas(taskCache, y)
    /\ inserted[x] >= 1 /\ ~CacheHas(taskCache, x) /\ x \notin evicted

\* C7: a pass confirms every new event of an unknown sub-kind and never
\* refuses it, refuses every new command of an unknown sub-kind and never
\* confirms it, and no such item is ever in a newTasks notification
C7_AutoDisposition ==
  [][ /\ PassStarts =>
           \A i \in 1..Len(debounced.lastArgs.tasks) :
             LET task == debounced.lastArgs.tasks[i]
                 In(method) == \E c \in Issued : c.by = "pass" /\ c.method = method
                                                  /\ InSeq(task.id, c.taskIds)
             IN  (~CacheHas(taskCache, task.id) /\ ~Recognized(task)) =>
                   /\ task.taskType = TaskTypeEvent =>
                        In("markTasksAsProcessed") /\ ~In("refuseTasks")
                   /\ task.taskType = TaskTypeCommand =>
                        In("refuseTasks") /\ ~In("markTasksAsProcessed")
                   /\ ~InSeq(task, pass'.tasksToEmit)
      /\ \A x \in Ids \ DeliverableIds : delivered'[x] = 0 ]_vars

\* one pass is waiting for both of its calls: the confirmation of the unknown
\* event and the refusal of the unknown command
C7_Witness ==
  /\ pass.state = "awaiting"
  /\ \E c \in inflight : c.by = "pass" /\ c.method = "markTasksAsProcessed" /\ InSeq("b", c.taskIds)
  /\ \E c \in inflight : c.by = "pass" /\ c.method = "refuseTasks" /\ InSeq("d", c.taskIds)

\* C8: every cache entry has a recognized sub-kind, and an identity enters
\* the cache only together with the delivery list of the pass
C8_CacheHoldsDeliverable ==
  [][ /\ \A i \in 1..Len(taskCache') : Recognized(taskCache'[i])
      /\ \A x \in IdSet(taskCache') \ IdSet(taskCache) :
           \/ \E i \in 1..Len(pass'.tasksToEmit) : pass'.tasksToEmit[i].id = x
           \/ \E i \in 1..Len(emitted'.newTasks) : InSeq(x, emitted'.newTasks[i]) ]_vars

\* a pass has cached the deliverable item of its snapshot and waits for the
\* confirmation of the unknown event of the same snapshot
C8_Witness ==
  /\ pass.state = "awaiting"
  /\ Len(taskCache) > 0
  /\ IdSet(taskCache) = IdSet(pass.tasksToEmit)
  /\ \E c \in inflight : c.by = "pass" /\ ~CacheHas(taskCache, c.taskIds[1])

\* C9 as stated: a pass that completes with a Pending snapshot goes straight
\* into a pass on that snapshot; with Pending empty the engine goes Idle
C9_ImmediateHandOver ==
  [][ PassCompletes =>
        IF latestTasks # Null
        THEN isProcessingTasks' /\ lastPass'.n = latestTasks.n /\ latestTasks' = Null
        ELSE ~isProcessingTasks' ]_vars

\* C9 amended: a pass that completes clears the flag and starts no pass; a
\* Pending snapshot is cleared and handed to the debounced runTasksQueue,
\* whose timer is restarted with it
C9_DebouncedHandOver ==
  [][ PassCompletes =>
        /\ ~isProcessingTasks'
        /\ latestTasks' = Null
        /\ ~PassStarts
        /\ debounced' = IF latestTasks # Null THEN Debounce(latestTasks, now) ELSE debounced ]_vars

\* the debounce timer runs on a snapshot built more than a window before the
\* timer was started: the snapshot was handed over from the Pending slot
C9_Witness ==
  /\ ~isProcessingTasks /\ latestTasks = Null /\ TimerPending
  /\ \E i \in 1..Len(debounced.lastArgs.tasks) :
       /\ debounced.lastArgs.tasks[i].timestampReceived # Undefined
       /\ debounced.deadline > debounced.lastArgs.tasks[i].timestampReceived + DebounceWait

\* C10: once the notifications have stopped and nothing is left to happen,
\* the last pass has reconciled against the last notified snapshot
C10_EventualLatest == Quiescent => lastPass.n = notified

\* this step is one tick of the liveness monitor
MonitorTicks == nextCheck' # nextCheck

\* the cached identities resident for more than the timeout
Overdue == { x \in Ids : cachedSince[x] >= 0 /\ now - cachedSince[x] > TaskTimeout }

\* C11: what the debounce passes to the intake function when its quiet
\* window elapses is the snapshot of the last notification of the burst
C11_DebounceCoalescing ==
  [][ TimerExpires => debounced.lastArgs.n = notified ]_vars

\* C12: no monitor tick mutates the cache between the start of a pass and
\* its completion
C12_MonitorExcluded ==
  [][ (MonitorTicks /\ isProcessingTasks) => taskCache' = taskCache ]_vars

\* C13: whatever the outcomes of its calls, a pass that has started goes on
\* to its end: while the flag is set the pass waits for a call in flight
C13_FailureNeverStalls ==
  isProcessingTasks => \E c \in inflight : c.by = "pass"

\* C14: a pass given an empty snapshot clears the cache, emits nothing,
\* issues no remote call, leaves the flag clear and hands a Pending snapshot,
\* if there is one, to the debounced runTasksQueue
C14_EmptySnapshotReset ==
  [][ (PassStarts /\ Len(debounced.lastArgs.tasks) = 0) =>
        /\ taskCache' = << >>
        /\ emitted' = Silent
        /\ delivered' = delivered
        /\ Issued = { }
        /\ ~isProcessingTasks' /\ pass'.state = "idle"
        /\ latestTasks' = Null
        /\ debounced' = IF latestTasks # Null THEN Debounce(latestTasks, now) ELSE NoTimer ]_vars

\* a pass over an empty snapshot has emptied a cache that held an item
C14_Witness ==
  /\ lastPass.n > 0 /\ Len(lastPass.ids) = 0
  /\ taskCache = << >> /\ ~isProcessingTasks
  /\ \E x \in Ids : inserted[x] >= 1 /\ x \notin evicted /\ cachedSince[x] = -1

\* C15: a pass whose snapshot omits a cached identity removes it and issues
\* no call containing it; the identity is absent when the pass completes
C15_DisappearanceConsistency ==
  [][ /\ PassStarts =>
           \A x \in IdSet(taskCache) \ IdSet(debounced.lastArgs.tasks) :
             /\ ~CacheHas(taskCache', x)
             /\ \A c \in Issued : ~InSeq(x, c.taskIds)
      /\ PassCompletes =>
           \A x \in Ids : ~InSeq(x, lastPass.ids) => ~CacheHas(taskCache', x) ]_vars

\* no processed snapshot was empty, an identity that was cached has gone
\* without eviction, and the suspended pass has no call containing it
C15_Witness ==
  /\ "b" \notin omitted
  /\ pass.state = "awaiting"
  /\ \E x \in Ids :
       /\ inserted[x] >= 1 /\ ~CacheHas(taskCache, x) /\ x \notin evicted
       /\ ~InSeq(x, lastPass.ids)
       /\ \A c \in inflight : ~InSeq(x, c.taskIds)

\* the cached entries whose age, as the monitor computes it, exceeds the timeout
Aged == IdSet(TasksToDefer(taskCache, now))

\* C16: a monitor tick with the client disconnected changes nothing, issues
\* no call and emits nothing; a tick with the client connected handles the
\* items resident for more than the timeout
C16_DisconnectedTick ==
  [][ MonitorTicks =>
        IF ~isConnected
        THEN taskCache' = taskCache /\ Issued = { } /\ emitted' = Silent
        ELSE \A x \in Overdue :
               /\ ~CacheHas(taskCache', x)
               /\ \E c \in Issued : c.method = "deferTasks" /\ InSeq(x, c.taskIds) ]_vars

\* C17: a tick with the client connected evicts the cached items older than
\* the timeout and no others; if there are any it issues one deferTasks call
\* and emits one systemAlert, both carrying exactly the evicted identities;
\* otherwise it issues no call and emits nothing
C17_TickEvictsExactlyOverdue ==
  [][ (MonitorTicks /\ isConnected) =>
        LET gone == IdSet(taskCache) \ IdSet(taskCache')
        IN  /\ Overdue \subseteq gone
            /\ gone \subseteq Aged
            /\ IF gone # { }
               THEN /\ \E c \in Issued :
                         /\ Issued = {c}
                         /\ c.method = "deferTasks"
                         /\ { c.taskIds[i] : i \in 1..Len(c.taskIds) } = gone
                    /\ Len(emitted'.systemAlert) = 1
                    /\ { emitted'.systemAlert[1][i] : i \in 1..Len(emitted'.systemAlert[1]) } = gone
               ELSE Issued = { } /\ emitted' = Silent ]_vars

\* the calls that return in this step
Returned == inflight \ inflight'

\* C18: the tick that issues deferTasks has removed the identities of the
\* call from the cache and emits the systemAlert for them in the same step;
\* the return of the call, whatever its outcome, changes neither the cache
\* nor what is emitted
C18_DeferNotRolledBack ==
  [][ /\ \A c \in Issued :
           c.method = "deferTasks" =>
             /\ \A i \in 1..Len(c.taskIds) : ~CacheHas(taskCache', c.taskIds[i])
             /\ emitted'.systemAlert = << c.taskIds >>
      /\ \A c \in Returned :
           c.method = "deferTasks" =>
             /\ taskCache' = taskCache
             /\ emitted'.systemAlert = << >> ]_vars

\* the deferTasks call of a tick has returned; what it evicted is not cached
C18_Witness ==
  /\ evicted # { }
  /\ \A c \in inflight : c.method # "deferTasks"
  /\ \A x \in evicted : ~CacheHas(taskCache, x)
  /\ now = nextCheck - CheckInterval

\* C19: a pass whose snapshot contains an evicted item that is not cached
\* caches the object of that snapshot, whose arrival timestamp is later than
\* that of the evicted object, and puts it in its delivery list; the pass
\* emits that list in newTasks when it completes
C19_RedeliveryAfterEviction ==
  [][ /\ PassStarts =>
           \A i \in 1..Len(debounced.lastArgs.tasks) :
             LET task == debounced.lastArgs.tasks[i]
             IN  (task.id \in evicted /\ ~CacheHas(taskCache, task.id) /\ Recognized(task)) =>
                   /\ InSeq(task, taskCache')
                   /\ task.timestampReceived > evictedStamp[task.id]
                   /\ inserted'[task.id] = inserted[task.id] + 1
                   /\ \/ InSeq(task, pass'.tasksToEmit)
                      \/ \E j \in 1..Len(emitted'.newTasks) : InSeq(task.id, emitted'.newTasks[j])
      /\ PassCompletes =>
           emitted'.newTasks = IF Len(pass.tasksToEmit) > 0
                               THEN << TaskIds(pass.tasksToEmit) >> ELSE << >> ]_vars

\* an evicted item is cached again with a later timestamp and has been
\* delivered a second time
C19_Witness ==
  \E i \in 1..Len(taskCache) :
    /\ taskCache[i].id \in evicted
    /\ evictedStamp[taskCache[i].id] >= 0
    /\ taskCache[i].timestampReceived > evictedStamp[taskCache[i].id]
    /\ delivered[taskCache[i].id] = 2
    /\ ~isProcessingTasks

\* the identities of the given kind that a pass over the snapshot of the
\* debounce finds new and of an unknown sub-kind
AutoDisposed(taskType) ==
  { debounced.lastArgs.tasks[i].id : i \in
      { j \in 1..Len(debounced.lastArgs.tasks) :
          /\ debounced.lastArgs.tasks[j].taskType = taskType
          /\ ~Recognized(debounced.lastArgs.tasks[j])
          /\ ~CacheHas(taskCache, debounced.lastArgs.tasks[j].id) } }

\* the step issues for the method one call carrying exactly ids, or none if
\* ids is empty
OneCallFor(method, ids) ==
  LET calls == { c \in Issued : c.method = method }
  IN  IF ids = { }
      THEN calls = { }
      ELSE \E c \in calls :
             /\ calls = {c}
             /\ c.by = "pass"
             /\ Len(c.taskIds) = Cardinality(ids)
             /\ { c.taskIds[i] : i \in 1..Len(c.taskIds) } = ids

\* C20: a pass issues one refuseTasks call with all its auto-refused
\* identities and one markTasksAsProcessed call with all its auto-confirmed
\* ones, neither for an empty list, and newTasks is emitted only when no call
\* of the pass is still in flight
C20_CallAndEmissionDiscipline ==
  [][ /\ PassStarts =>
           /\ OneCallFor("refuseTasks", AutoDisposed(TaskTypeCommand))
           /\ OneCallFor("markTasksAsProcessed", AutoDisposed(TaskTypeEvent))
           /\ \A c \in Issued : c.method \in {"refuseTasks", "markTasksAsProcessed"}
      /\ emitted'.newTasks # << >> => \A c \in inflight' : c.by # "pass" ]_vars

\* a pass that issued both calls has emitted newTasks after both returned
C20_Witness ==
  /\ emitted.newTasks # << >>
  /\ InSeq("b", lastPass.ids) /\ InSeq("d", lastPass.ids)
  /\ pass.state = "idle" /\ ~isProcessingTasks
  /\ \A c \in inflight : c.by # "pass"

\* C21: a step emits at most one newTasks notification and never an empty
\* list; a pass whose snapshot holds only cached items and items of unknown
\* sub-kind has an empty delivery list and emits nothing, at its start and
\* at its completion, and it leaves the cached entries as they are
C21_NoEmptyDelivery ==
  [][ /\ Len(emitted'.newTasks) <= 1
      /\ \A j \in 1..Len(emitted'.newTasks) : Len(emitted'.newTasks[j]) > 0
      /\ PassStarts =>
           LET tasks == debounced.lastArgs.tasks
           IN  (\A i \in 1..Len(tasks) :
                  CacheHas(taskCache, tasks[i].id) \/ ~Recognized(tasks[i])) =>
                 /\ pass'.tasksToEmit = << >>
                 /\ emitted'.newTasks = << >>
                 /\ \A i \in 1..Len(tasks) :
                      IF CacheHas(taskCache, tasks[i].id)
                      THEN \E k \in 1..Len(taskCache) :
                             taskCache[k].id = tasks[i].id /\ InSeq(taskCache[k], taskCache')
                      ELSE ~CacheHas(taskCache', tasks[i].id)
      /\ (PassCompletes /\ pass.tasksToEmit = << >>) => emitted'.newTasks = << >> ]_vars

\* the pass over [a, b] with a cached: nothing to deliver, one call with [b]
\* in flight, a still cached and b not
C21_Witness ==
  /\ pass.state = "awaiting" /\ pass.tasksToEmit = << >>
  /\ lastPass.ids = << "a", "b" >>
  /\ inflight = { [method |-> "markTasksAsProcessed", taskIds |-> << "b" >>,
                   by |-> "pass", at |-> now] }
  /\ CacheHas(taskCache, "a") /\ ~CacheHas(taskCache, "b")
  /\ delivered["a"] = 1

\* C22: a tick with the client connected evicts a cached item if and only
\* if it arrived more than the timeout before the tick (an item of exactly
\* that age is kept), so that no item resident for more than the timeout
\* survives a connected tick
C22_TimeoutBoundary ==
  [][ (MonitorTicks /\ isConnected) =>
        /\ \A i \in 1..Len(taskCache) :
             taskCache[i].timestampReceived # Undefined =>
               (~CacheHas(taskCache', taskCache[i].id)
                  <=> now - taskCache[i].timestampReceived > TaskTimeout)
        /\ \A x \in Overdue : ~CacheHas(taskCache', x) ]_vars

\* C23: the notification numbers of the snapshots the passes are given never
\* decrease: a pass is never given a snapshot notified before the one the
\* previous pass was given (snapshots in between may be skipped)
C23_ArrivalOrder ==
  [][ lastPass'.n >= lastPass.n ]_vars

\* a pass given the third snapshot is running after an earlier pass, given an
\* earlier snapshot, cached and delivered an item
C23_Witness ==
  /\ lastPass.n = 3
  /\ pass.state = "awaiting"
  /\ \E x \in Ids : inserted[x] >= 1 /\ delivered[x] >= 1 /\ x \notin IdSet(pass.tasksToEmit)

\* C24: the engine survives an aborted pass: once the debounce timer has
\* expired and every call has returned, so that nothing is left that could
\* end the Running state, the flag is clear and no snapshot waits in the
\* Pending slot
C24_SurvivesAbortedPass ==
  (pass.state = "aborted" /\ ~TimerPending /\ inflight = { }) =>
    (~isProcessingTasks /\ latestTasks = Null)

\* C26: an identity that is cached before and after a step has the same
\* entry, object and arrival timestamp, after it as before: an entry changes
\* only by being removed and inserted again by a later step
C26_NoOverwriteWhileResident ==
  [][ \A i \in 1..Len(taskCache) :
        CacheHas(taskCache', taskCache[i].id) => InSeq(taskCache[i], taskCache') ]_vars

\* a was cached by the first pass; the second pass, given a snapshot built
\* later that holds a again, cached c; a's entry has the timestamp of the
\* first snapshot
C26_Witness ==
  /\ lastPass.n = 2 /\ InSeq("a", lastPass.ids) /\ InSeq("c", lastPass.ids)
  /\ inserted["a"] = 1 /\ inserted["c"] = 1
  /\ cachedSince["a"] >= 0 /\ cachedSince["c"] >= cachedSince["a"] + DebounceWait
  /\ \E i \in 1..Len(taskCache) :
       /\ taskCache[i].id = "a"
       /\ taskCache[i].timestampReceived # Undefined
       /\ taskCache[i].timestampReceived < cachedSince["a"]

\* the identities of the documents of a known kind, in the collection's order
KnownKindIds(docs) ==
  LET known == SelectSeq(docs, LAMBDA doc :
                 doc.taskType = TaskTypeEvent \/ doc.taskType = TaskTypeCommand)
  IN  [i \in 1..Len(known) |-> known[i]._id]

\* C25: a document of unknown taskType is dropped alone: when the collection
\* changes, the snapshot handed to the debounced runTasksQueue is that of
\* this change and holds the other documents of the collection, all of them,
\* and no pass is ever given, caches, disposes of or delivers the unknown one
C25_UnknownKindDroppedAlone ==
  [][ /\ collection' # collection =>
           /\ debounced'.lastArgs.n = notified'
           /\ TaskIds(debounced'.lastArgs.tasks) = KnownKindIds(collection')
      /\ ~CacheHas(taskCache', UnknownKindDoc._id)
      /\ \A c \in inflight' : ~InSeq(UnknownKindDoc._id, c.taskIds) \/ c.by = "app"
      /\ \A j \in 1..Len(emitted'.newTasks) :
           ~InSeq(UnknownKindDoc._id, emitted'.newTasks[j]) ]_vars

\* this step is the application's call of an operation
Invoked == caller'.n # caller.n

\* C27: the application's call of an operation, and the return of the remote
\* call it made, leave the cache, the Pending slot and the Running flag as
\* they are: an item the application has confirmed or refused stays cached
C27_OperationsFrame ==
  [][ (Invoked \/ \E c \in Returned : c.by = "app") =>
        /\ taskCache' = taskCache
        /\ latestTasks' = latestTasks
        /\ isProcessingTasks' = isProcessingTasks ]_vars

\* the application confirmed the delivered command a, the remote call
\* succeeded, and a is still cached
C27_Witness ==
  /\ caller.op = "confirmTestCommand" /\ caller.tasks = << "a" >>
  /\ caller.outcome = "resolved"
  /\ delivered["a"] = 1
  /\ CacheHas(taskCache, "a")

\* the operations that take the id of a table or element
IdOperations ==
  { "markPaymentDone", "markPaymentCancelled", "finishTable", "getOrderItems",
    "cancelOrderItems", "getTable", "addCustomOrderItems", "changeOrderItemsStatus",
    "markOrderItemsPaymentStatus", "cancelPayment" }

\* the operations that throw when their list, record or payment id is empty
NonEmptyOperations ==
  { Operations[i].name : i \in { j \in 1..Len(Operations) : Operations[j].checksEmpty } }

\* C28: a call of an operation that takes an id, with neither id nor
\* externalId given, and a call of an operation that requires a non-empty
\* list or record, with an empty one, throws synchronously; it issues no
\* remote call and changes nothing in the engine
C28_PreconditionBeforeCall ==
  [][ (/\ Invoked
       /\ \/ /\ caller'.op \in IdOperations
             /\ ~caller'.idData.id /\ ~caller'.idData.externalId
          \/ /\ caller'.op \in NonEmptyOperations
             /\ caller'.size = 0) =>
        /\ caller'.outcome = "threw"
        /\ Issued = { }
        /\ UNCHANGED engine ]_vars

\* C29: the promise an operation got from Client.callMethod is never
\* rejected: it resolves, to undefined with exactly one 'error' event emitted
\* when the remote call failed and with none when it succeeded, and the call
\* is not made again
C29_FailureIsAValue ==
  [][ \A c \in Returned : c.by = "app" =>
        /\ caller'.outcome \in {"resolved", "resolved undefined"}
        /\ caller'.errors = (IF caller'.outcome = "resolved" THEN 0 ELSE 1)
        /\ Issued = { } ]_vars

\* what the 'connected' handler did since the transport connected
Handshake ==
  SelectSeq(client.log, LAMBDA e : e \notin {"emit login", "emit logout", "emit disconnected"})

\* C30: the handler first calls isVersionValid; on a falsy result it emits
\* 'error' and disconnects, and neither emits 'connected' nor calls login; on
\* a true result it emits 'connected' and then calls login, and a falsy login
\* result makes it emit 'error' and disconnect
C30_HandshakeOrder ==
  /\ Handshake # << >> /\ Handshake[1] = "call isVersionValid"
  /\ client.version = "invalid" =>
       Handshake = << "call isVersionValid", "emit error", "disconnect" >>
  /\ client.version = "valid" =>
       /\ Len(Handshake) >= 3
       /\ SubSeq(Handshake, 1, 3) = << "call isVersionValid", "emit connected", "call login" >>
  /\ client.login = "falsy" =>
       SubSeq(Handshake, 4, Len(Handshake)) = << "emit error", "disconnect" >>
  /\ client.version # "valid" => ~InSeq("emit connected", Handshake)

\* C31: the Pending slot is occupied only while the flag is set, and the
\* step that completes a pass leaves the slot empty, the snapshot it held
\* being the one handed to the debounced runTasksQueue
C31_PendingOnlyWhileRunning ==
  /\ [](~isProcessingTasks => latestTasks = Null)
  /\ [][ PassCompletes =>
           /\ latestTasks' = Null
           /\ latestTasks # Null => debounced'.lastArgs = latestTasks ]_vars

\* a pass has just completed and handed over a Pending snapshot: the debounce
\* was restarted now with a snapshot built at least a debounce window ago
C31_Witness ==
  /\ ~isProcessingTasks /\ latestTasks = Null /\ pass.state = "idle"
  /\ lastPass.n >= 1
  /\ TimerPending /\ debounced.deadline = now + DebounceWait
  /\ \E i \in 1..Len(debounced.lastArgs.tasks) :
       /\ debounced.lastArgs.tasks[i].timestampReceived # Undefined
       /\ debounced.lastArgs.tasks[i].timestampReceived + DebounceWait <= now

\* C32: every identity a systemAlert carries, and every identity of a
\* deferTasks call of the monitor, has been carried by a newTasks
\* notification before
C32_EscalationAfterDelivery ==
  [][ /\ \A j \in 1..Len(emitted'.systemAlert) :
           \A i \in 1..Len(emitted'.systemAlert[j]) :
             delivered[emitted'.systemAlert[j][i]] >= 1
      /\ \A c \in Issued :
           c.by = "monitor" => \A i \in 1..Len(c.taskIds) : delivered[c.taskIds[i]] >= 1 ]_vars

\* C33: the step that starts a pass leaves the cache reconciled against the
\* snapshot of the pass, holding none of the identities the snapshot lacks and
\* every item of it whose sub-kind is recognized; the later steps of the
\* pass, the returns of its calls, do not change the cache
C33_MutationsBeforeSuspension ==
  [][ /\ (PassStarts /\ Len(debounced.lastArgs.tasks) > 0) =>
           LET tasks == debounced.lastArgs.tasks
           IN  /\ IdSet(taskCache') \subseteq IdSet(tasks)
               /\ \A i \in 1..Len(tasks) :
                    Recognized(tasks[i]) <=> CacheHas(taskCache', tasks[i].id)
      /\ \A c \in Returned : c.by = "pass" => taskCache' = taskCache ]_vars

\* a pass is suspended at its await: what it will deliver is cached already
\* and not delivered yet
C33_Witness ==
  /\ pass.state = "awaiting"
  /\ \E c \in inflight : c.by = "pass"
  /\ pass.tasksToEmit # << >>
  /\ IdSet(pass.tasksToEmit) \subseteq IdSet(taskCache)
  /\ \A x \in IdSet(pass.tasksToEmit) : delivered[x] = 0

\* C34: the delivery list of a pass is the subsequence, in the order of the
\* snapshot, of the items of the snapshot that are not cached and whose
\* sub-kind is recognized; it is what the pass emits in newTasks, at once
\* when it has no call to wait for and at its completion otherwise
C34_BatchContentAndOrder ==
  [][ /\ (PassStarts /\ Len(debounced.lastArgs.tasks) > 0) =>
           LET expected == SelectSeq(debounced.lastArgs.tasks,
                             LAMBDA t : ~CacheHas(taskCache, t.id) /\ Recognized(t))
               batch == IF expected = << >> THEN << >> ELSE << TaskIds(expected) >>
           IN  IF Issued = { }
               THEN emitted'.newTasks = batch
               ELSE pass'.tasksToEmit = expected /\ emitted'.newTasks = << >>
      /\ PassCompletes =>
           emitted'.newTasks = IF pass.tasksToEmit = << >> THEN << >>
                               ELSE << TaskIds(pass.tasksToEmit) >> ]_vars

\* the snapshot [c, a] was delivered as [c, a]
C34_Witness ==
  /\ emitted.newTasks = << << "c", "a" >> >>
  /\ lastPass.ids = << "c", "a" >>

\* C35: every pass whose snapshot holds an item of unknown sub-kind issues a
\* call that carries its identity, whatever the earlier passes did with it
C35_DispositionRepeated ==
  [][ PassStarts =>
        \A i \in 1..Len(debounced.lastArgs.tasks) :
          LET task == debounced.lastArgs.tasks[i]
          IN  ~Recognized(task) =>
                \E c \in Issued :
                  /\ c.by = "pass"
                  /\ c.method = (IF task.taskType = TaskTypeEvent
                                 THEN "markTasksAsProcessed" ELSE "refuseTasks")
                  /\ InSeq(task.id, c.taskIds) ]_vars

\* a pass has just issued a call for b; every snapshot processed so far held
\* b, and an earlier pass cached an item
C35_Witness ==
  /\ "b" \notin omitted
  /\ \E c \in inflight :
       /\ c.by = "pass" /\ c.method = "markTasksAsProcessed" /\ InSeq("b", c.taskIds)
       /\ \E x \in Ids : cachedSince[x] >= 0 /\ cachedSince[x] < c.at

\* this step is a call of addServiceHandler
AddCalled == Invoked /\ caller'.op = "addServiceHandler"

\* C36: a call of addServiceHandler without tenantId fails and constructs
\* nothing; a call made while the client is not logged in constructs nothing
\* and waits; a handler is constructed only by a call made while logged in or
\* by the step that emits 'login', and it is appended to _serviceHandlers,
\* from which nothing is ever taken
C36_HandlerGatedOnLogin ==
  [][ /\ (AddCalled /\ caller'.size = 0) =>
           /\ caller'.outcome = "rejected"
           /\ client' = client
      /\ (AddCalled /\ caller'.size > 0 /\ ~client.isLoggedIn) =>
           /\ caller'.outcome = "pending"
           /\ client'.serviceHandlers = client.serviceHandlers
           /\ Len(client'.waiting) = Len(client.waiting) + 1
      /\ (AddCalled /\ caller'.outcome = "resolved") =>
           Len(client'.serviceHandlers) = Len(client.serviceHandlers) + 1
      /\ client'.serviceHandlers # client.serviceHandlers =>
           /\ Len(client'.serviceHandlers) > Len(client.serviceHandlers)
           /\ SubSeq(client'.serviceHandlers, 1, Len(client.serviceHandlers))
                = client.serviceHandlers
           /\ client'.isLoggedIn
           /\ \/ AddCalled /\ client.isLoggedIn
              \/ /\ ~client.isLoggedIn
                 /\ client'.log = client.log \o << "emit login" >>
                 /\ client'.serviceHandlers = client.serviceHandlers \o client.waiting ]_vars

\* a call made while the client was not logged in got its handler when
\* 'login' was emitted
C36_Witness ==
  /\ caller.op = "addServiceHandler" /\ caller.outcome = "pending"
  /\ client.serviceHandlers = << "tenant", "other" >>
  /\ client.waiting = << >>
  /\ client.isLoggedIn
  /\ client.connects >= 1

====
